---- MODULE Spec2Model ----
(***************************************************************************)
(* Approach-alert server of hugoflying/approach-app.                       *)
(*                                                                         *)
(* The repository holds several successive versions of the same server.   *)
(* Three of them are modelled here, each under its own specification:     *)
(*   Spec        src/unnamed/part_001 lines 127-334 (Basic auth, retry)    *)
(*   SpecTraffic src/unnamed/part_000 lines 167-440 (OAuth2, fallback)     *)
(*   SpecIndex   src/server/index.js  lines 166-350 (bearing strategy)     *)
(*                                                                         *)
(* Node runs every handler to completion: a handler is interleaved with   *)
(* another one only at an await.  The position of the single poll() call  *)
(* chain is pc; the message and connection handlers are synchronous and   *)
(* run only while poll is suspended (pc # "loop").  One iteration of the  *)
(* for-loop of poll is one step; no other handler runs between two        *)
(* iterations.                                                             *)
(*                                                                         *)
(* A position (lat, lon) is represented by what the code computes from    *)
(* it: d_km, its haversine distance to the airport, and brg, the initial  *)
(* bearing from it to the airport, both whole numbers.                    *)
(***************************************************************************)
EXTENDS Integers, Sequences, FiniteSets, TLC

VARIABLES
  alerts,     \* state.alerts : key -> entry
  acked,      \* state.acked  : key -> entry
  landed,     \* state.landed : key -> entry
  pc,         \* position of poll(): "idle" (timer pending), "fetch", "sleep",
              \*   "secondary", "loop"
  i,          \* fetchWithRetry: the attempt index i
  delay,      \* fetchWithRetry: the backoff delay in ms
  len,        \* items.length of the batch being processed
  n,          \* snapshots of that batch processed so far
  timers,     \* pending setTimeout(poll, ...) timers
  now,        \* Date.now(), in clock ticks
  consecutiveOpenSkyEmpty,  \* part_000: run of empty primary results
  fallbackUntil,            \* part_000: end of the cooldown window
  t0,         \* part_000 fetchTraffic: its local `now`
  osToken,    \* part_000: _osToken, the cached access token
  osTokenExp, \* part_000: _osTokenExp, its expiry in clock ticks
  status,     \* fetchWithRetry: res.status of the answer to the last attempt
  verdict,    \* the value isApproach(ac) returned to a direct call
  bearer,     \* fetchOpenSky: the token getOpenSkyToken() returned to it
  scheduled,  \* poll's finally: CFG.POLL_MS, the random draw, the timer delay
  parsed,     \* parseOpenSky: data.states and what the call gave
  tries,      \* fetchWithRetry: its parameter tries
  slept,      \* fetchWithRetry: the ms passed to the last sleep()
  clients,    \* wss.clients: the connected observers
  threw,      \* broadcast: the clients whose send() threw
  delivered,  \* broadcast: the clients whose send() took the event
  credentials, \* whether OPENSKY_CLIENT_ID and OPENSKY_CLIENT_SECRET are set
  sent,       \* part_001: the keys of the APPROACH_ALERTs broadcast so far and
              \* the number of ACK_OKs sent so far for each key
  op,         \* the handler step taken last
  key,        \* the key that step looked up (flightKey(ac) or msg.key)
  ac,         \* the snapshot that step processed
  classified, \* whether that step called isApproach(ac)
  out         \* the message that step handed to the WebSocket layer

store   == <<alerts, acked, landed>>
retry   == <<i, delay>>
aside   == <<scheduled, parsed, tries, slept, clients, threw, delivered,
             credentials, sent>>
detail  == <<osToken, osTokenExp, status, verdict, bearer,
             scheduled, parsed, tries, slept, clients, threw, delivered,
             credentials, sent>>
upstream == <<consecutiveOpenSkyEmpty, fallbackUntil, t0,
              osToken, osTokenExp, status, verdict, bearer,
              scheduled, parsed, tries, slept, clients, threw, delivered,
              credentials>>
source  == <<consecutiveOpenSkyEmpty, fallbackUntil, t0,
             osToken, osTokenExp, status, verdict, bearer,
             scheduled, parsed, tries, slept, clients, threw, delivered,
             credentials, sent>>
last    == <<op, key, ac, classified, out>>
batch   == <<len, n>>
vars    == <<alerts, acked, landed, pc, i, delay, len, n, timers, now,
             consecutiveOpenSkyEmpty, fallbackUntil, t0,
             osToken, osTokenExp, status, verdict, bearer,
             scheduled, parsed, tries, slept, clients, threw, delivered,
             credentials, sent, op, key, ac, classified, out>>

----------------------------------------------------------------------------
\* Bounds of the model.
MaxBatch == 2      \* snapshots per batch
MaxNow   == 2      \* clock ticks

\* Configuration (src/server/config.js).
RADIUS_KM       == 80
ALT_MAX_FT      == 10000
BEARING_MAX_DEG == 35
ETA_MAX_MIN     == 25
RUNWAY_HEADINGS == {123, 303}
RUNWAY_TOL      == 20

\* Thresholds written in the code.
LANDED_ALT_FT   == 200
LANDED_GS_KTS   == 50
MIN_GS_KTS      == 20
CLOSE_IN_KM     == 30
TRIES           == 4
DELAY_0         == 800
DELAY_CAP       == 6000

\* null / undefined of a numeric field, and of a string field ("" is falsy too).
null  == 0 - 1000000
nostr == ""

----------------------------------------------------------------------------
\* Maps.
Has(m, k)     == k \in DOMAIN m
MapSet(m, k, v)  == [x \in (DOMAIN m) \cup {k} |-> IF x = k THEN v ELSE m[x]]
MapDelete(m, k)  == [x \in (DOMAIN m) \ {k} |-> m[x]]
EmptyMap      == [x \in {} |-> TRUE]

\* JavaScript's %: the remainder has the sign of the dividend.
JsMod(x, m) == IF x >= 0 THEN x % m ELSE 0 - ((0 - x) % m)
Abs(x)      == IF x >= 0 THEN x ELSE 0 - x

angDiff(a, b) == Abs(JsMod(JsMod(a - b, 360) + 540, 360) - 180)

----------------------------------------------------------------------------
\* Snapshots (the objects pushed by fetchOpenSky).
NoSnap == [hex |-> nostr, callsign |-> nostr, d_km |-> null, brg |-> null,
           alt_ft |-> null, gs_kts |-> null, track_deg |-> null, vs_fpm |-> null]

Idents == { [hex |-> "4CA1", callsign |-> "RYR1"],
            [hex |-> nostr,  callsign |-> "AFR2"] }

\* d_km, brg, alt_ft, gs_kts, track_deg, vs_fpm
Profiles == {
  <<40, 120, 6000, 150, 125, 0 - 500>>,    \* descending towards the field
  <<20, 120, 3000, 140, null, null>>,      \* closer in, track and rate unknown
  <<1, 123, 150, 40, 123, 0>>,             \* on the runway, rolling out
  <<40, 120, 6000, 150, 125, 1000>>,       \* climbing
  <<40, 120, null, 150, 125, 0 - 500>> }   \* altitude unknown

Snapshots == { [hex |-> id.hex, callsign |-> id.callsign, d_km |-> p[1],
                brg |-> p[2], alt_ft |-> p[3], gs_kts |-> p[4],
                track_deg |-> p[5], vs_fpm |-> p[6]] :
               id \in Idents, p \in Profiles }

UnkKeys == {"unk-a"}

flightKey(obj, rnd) ==
  IF obj.hex # nostr THEN obj.hex
  ELSE IF obj.callsign # nostr THEN obj.callsign
  ELSE rnd

\* The landing test written inline in poll.
isLanded(a) ==
  /\ a.alt_ft # null /\ a.alt_ft < LANDED_ALT_FT
  /\ a.gs_kts # null /\ a.gs_kts < LANDED_GS_KTS

\* eta_min > ETA_MAX_MIN, with eta_min = (d_km / (gs_kts * 1.852)) * 60.
EtaTooLong(a) == a.d_km * 60 * 1000 > ETA_MAX_MIN * a.gs_kts * 1852

\* part_001 lines 127-334.
isAlignedRunway(track) ==
  IF track = null THEN TRUE
  ELSE \E hdg \in RUNWAY_HEADINGS : angDiff(track, hdg) <= RUNWAY_TOL

isApproach(a) ==
  IF a.d_km > RADIUS_KM THEN FALSE
  ELSE IF a.alt_ft = null \/ a.alt_ft > ALT_MAX_FT THEN FALSE
  ELSE IF a.vs_fpm # null /\ a.vs_fpm > 0 THEN FALSE
  ELSE IF ~isAlignedRunway(a.track_deg) THEN FALSE
  ELSE IF a.gs_kts # null /\ a.gs_kts > MIN_GS_KTS /\ EtaTooLong(a) THEN FALSE
  ELSE TRUE

----------------------------------------------------------------------------
\* Messages handed to the WebSocket layer.
NoMsg == [to |-> "none", type |-> "NONE", key |-> nostr,
          callsign |-> nostr, hex |-> nostr]
Broadcast(type, k, a) == [to |-> "all", type |-> type, key |-> k,
                          callsign |-> a.callsign, hex |-> a.hex]
Reply(type, k) == [to |-> "requester", type |-> type, key |-> k,
                   callsign |-> nostr, hex |-> nostr]

\* Nothing has been sent yet.
NoSent == [alerted |-> {}, ackOk |-> EmptyMap]

\* Inbound WebSocket messages.
AckKeys  == {"4CA1", "AFR2", "ZZZ"}
Messages == { [type |-> t, key |-> k] : t \in {"ACK", "PING"},
                                         k \in AckKeys \cup {nostr} }

\* The variables that only the specifications of single functions write
\* (SpecDelay, SpecParse, SpecRetry, SpecBroadcast below).
AsideInit ==
  /\ scheduled = [POLL_MS |-> 0, draw |-> 0, delay |-> 0]
  /\ parsed = [states |-> <<>>, threw |-> FALSE, out |-> <<>>]
  /\ tries = TRIES /\ slept = 0
  /\ clients = {} /\ threw = {} /\ delivered = {}
  /\ credentials = TRUE
  /\ sent = NoSent

Init ==
  /\ alerts = EmptyMap /\ acked = EmptyMap /\ landed = EmptyMap
  /\ pc = "fetch" /\ i = 0 /\ delay = DELAY_0 /\ len = 0 /\ n = 0 /\ timers = 0
  /\ now = 0
  /\ consecutiveOpenSkyEmpty = 0 /\ fallbackUntil = 0 /\ t0 = 0
  /\ osToken = nostr /\ osTokenExp = 0 /\ status = 0 /\ verdict = FALSE
  /\ bearer = nostr /\ AsideInit
  /\ op = "start" /\ key = nostr /\ ac = NoSnap /\ classified = FALSE
  /\ out = NoMsg

\* The clock advances.
Tick ==
  /\ now < MaxNow
  /\ now' = now + 1
  /\ op' = "tick" /\ key' = nostr /\ ac' = NoSnap /\ classified' = FALSE
  /\ out' = NoMsg
  /\ UNCHANGED <<store, pc, retry, batch, timers, source>>

\* What a step that touches no snapshot leaves in the step record.
Did(o) ==
  /\ op' = o /\ key' = nostr /\ ac' = NoSnap /\ classified' = FALSE
  /\ out' = NoMsg

----------------------------------------------------------------------------
\* part_001 lines 127-334, with SIMULATE unset (its default): every batch comes
\* from fetchOpenSky.

\* finally { setTimeout(poll, ...) }: poll returns with one more timer pending.
Reschedule_dropped ==
  /\ pc' = "idle"
  /\ timers' = timers
Reschedule ==
  /\ pc' = "idle"
  /\ timers' = timers + 1

\* The timer fires: poll() runs up to the first fetch of fetchWithRetry.
poll ==
  /\ pc = "idle" /\ timers > 0
  /\ timers' = timers - 1
  /\ pc' = "fetch" /\ i' = 0 /\ delay' = DELAY_0 /\ len' = 0 /\ n' = 0
  /\ Did("poll")
  /\ UNCHANGED <<store, now, source>>

\* An attempt answers res.ok and res.json() parses: fetchOpenSky returns `size`
\* snapshots and the loop of poll is entered.
fetchOk(size) ==
  /\ pc = "fetch"
  /\ pc' = "loop" /\ len' = size
  /\ Did("fetched")
  /\ UNCHANGED <<store, retry, n, timers, now, source>>

\* An attempt fails (a non-OK status or a network error), attempts are left:
\* fetchWithRetry sleeps.
fetchRetry ==
  /\ pc = "fetch" /\ i # TRIES - 1
  /\ pc' = "sleep"
  /\ Did("attemptFailed")
  /\ UNCHANGED <<store, retry, batch, timers, now, source>>

\* The sleep ends: the delay doubles up to its cap and the next attempt starts.
fetchWake ==
  /\ pc = "sleep"
  /\ delay' = IF delay * 2 < DELAY_CAP THEN delay * 2 ELSE DELAY_CAP
  /\ i' = i + 1
  /\ pc' = "fetch"
  /\ Did("retry")
  /\ UNCHANGED <<store, batch, timers, now, source>>

\* The last attempt fails: fetchWithRetry throws, fetchOpenSky rejects, and
\* poll's catch and finally run.
fetchExhausted ==
  /\ pc = "fetch" /\ i = TRIES - 1
  /\ Reschedule
  /\ Did("exhausted")
  /\ UNCHANGED <<store, retry, batch, now, source>>

\* res.json() rejects (the body is no JSON): poll's catch and finally run.
fetchBadBody ==
  /\ pc = "fetch"
  /\ Reschedule
  /\ Did("badBody")
  /\ UNCHANGED <<store, retry, batch, now, source>>

\* `!state.acked.has(key) && !state.landed.has(key)`.
canAlert_always(k) == TRUE
canAlert_ackedIgnored(k) == ~Has(landed, k)
canAlert_landedIgnored(k) == ~Has(acked, k)
canAlert(k) == ~Has(acked, k) /\ ~Has(landed, k)

MaxAckOk == 2      \* the count of ACK_OKs for one key stops growing here

\* The record of what was sent, after an APPROACH_ALERT for k and after an
\* ACK_OK for k.
Alerted(k) == [sent EXCEPT !.alerted = @ \cup {k}]
AckOked(k) ==
  LET c == IF Has(sent.ackOk, k) THEN sent.ackOk[k] ELSE 0 IN
    [sent EXCEPT !.ackOk = MapSet(@, k, IF c < MaxAckOk THEN c + 1 ELSE c)]

observe_dropsUnqualified(a, rnd) ==
  /\ pc = "loop" /\ n < len
  /\ n' = n + 1
  /\ op' = "observe" /\ ac' = a /\ key' = flightKey(a, rnd)
  /\ LET k == flightKey(a, rnd) IN
     IF isLanded(a) THEN
       /\ alerts' = MapDelete(alerts, k)
       /\ acked' = MapDelete(acked, k)
       /\ landed' = MapSet(landed, k, [landed_at |-> now, snapshot |-> a])
       /\ out' = Broadcast("LANDED", k, a)
       /\ classified' = FALSE
     ELSE
       /\ classified' = TRUE
       /\ IF isApproach(a) /\ canAlert(k) THEN
            /\ alerts' = MapSet(alerts, k, [snapshot |-> a])
            /\ out' = Broadcast("APPROACH_ALERT", k, a)
          ELSE
            /\ alerts' = MapDelete(alerts, k)
            /\ out' = NoMsg
       /\ UNCHANGED <<acked, landed>>
  /\ sent' = IF out'.type = "APPROACH_ALERT" THEN Alerted(flightKey(a, rnd))
             ELSE sent
  /\ UNCHANGED <<pc, retry, len, timers, now, upstream>>

\* One iteration of `for (const ac of items)`.
observe(a, rnd) ==
  /\ pc = "loop" /\ n < len
  /\ n' = n + 1
  /\ op' = "observe" /\ ac' = a /\ key' = flightKey(a, rnd)
  /\ LET k == flightKey(a, rnd) IN
     IF isLanded(a) THEN
       /\ alerts' = MapDelete(alerts, k)
       /\ acked' = MapDelete(acked, k)
       /\ landed' = MapSet(landed, k, [landed_at |-> now, snapshot |-> a])
       /\ out' = Broadcast("LANDED", k, a)
       /\ classified' = FALSE
     ELSE
       /\ classified' = TRUE
       /\ IF isApproach(a) /\ canAlert(k) THEN
            /\ alerts' = MapSet(alerts, k, [snapshot |-> a])
            /\ out' = Broadcast("APPROACH_ALERT", k, a)
          ELSE
            /\ alerts' = alerts
            /\ out' = NoMsg
       /\ UNCHANGED <<acked, landed>>
  /\ sent' = IF out'.type = "APPROACH_ALERT" THEN Alerted(flightKey(a, rnd))
             ELSE sent
  /\ UNCHANGED <<pc, retry, len, timers, now, upstream>>

\* The batch is exhausted: poll's finally runs.
loopEnd ==
  /\ pc = "loop" /\ n = len
  /\ Reschedule
  /\ Did("cycleDone")
  /\ UNCHANGED <<store, retry, batch, now, source>>

\* `state.alerts.delete(msg.key)` of the ACK branch.
alertsAfterAck_kept(k) == alerts
alertsAfterAck(k) == MapDelete(alerts, k)

\* A WebSocket handler is run by the event loop only when poll() is not on
\* the stack: before it is called, or while it is suspended at its only await
\* (the fetch, and the sleeps and re-fetches inside).  The for-loop over the
\* batch holds no await.
pollYielded_untilCycleEnd == pc = "idle"
pollYielded_always == TRUE
pollYielded == pc # "loop"

\* ws.on("message"): the whole handler.
message(msg) ==
  /\ pollYielded
  /\ IF msg.type = "ACK" /\ msg.key # nostr THEN
       /\ op' = "ACK" /\ key' = msg.key /\ ac' = NoSnap /\ classified' = FALSE
       /\ IF Has(alerts, msg.key) THEN
            /\ alerts' = alertsAfterAck(msg.key)
            /\ acked' = MapSet(acked, msg.key,
                   [acked_at |-> now, snapshot |-> alerts[msg.key].snapshot])
            /\ out' = Reply("ACK_OK", msg.key)
            /\ sent' = AckOked(msg.key)
          ELSE
            /\ out' = NoMsg
            /\ UNCHANGED <<alerts, acked, sent>>
     ELSE
       /\ Did("message")
       /\ UNCHANGED <<alerts, acked, sent>>
  /\ UNCHANGED <<landed, pc, retry, batch, timers, now, upstream>>

\* wss.on("connection"): the handler registers the listener and sends INIT.
connection ==
  /\ pollYielded
  /\ op' = "connection" /\ key' = nostr /\ ac' = NoSnap /\ classified' = FALSE
  /\ out' = Reply("INIT", nostr)
  /\ UNCHANGED <<store, pc, retry, batch, timers, now, source>>

Next ==
  \/ Tick
  \/ poll
  \/ \E size \in 0..MaxBatch : fetchOk(size)
  \/ fetchRetry
  \/ fetchWake
  \/ fetchExhausted
  \/ fetchBadBody
  \/ \E a \in Snapshots, rnd \in UnkKeys : observe(a, rnd)
  \/ loopEnd
  \/ \E msg \in Messages : message(msg)
  \/ connection

Spec == Init /\ [][Next]_vars

----------------------------------------------------------------------------
\* Properties of part_001 lines 127-334, checked under Spec.

\* C1 State exclusivity: after any interleaving of poll cycles and ACK
\* messages, every flight key is in at most one of state.alerts, state.acked
\* and state.landed.
C1_StateExclusivity ==
  /\ (DOMAIN alerts) \cap (DOMAIN acked) = {}
  /\ (DOMAIN alerts) \cap (DOMAIN landed) = {}
  /\ (DOMAIN acked) \cap (DOMAIN landed) = {}

\* An ACK has just moved one key to acked while the other key, acknowledged
\* earlier, has landed since.
C1_Witness ==
  /\ op = "ACK" /\ out.type = "ACK_OK"
  /\ Has(acked, key)
  /\ \E k \in DOMAIN landed : k # key /\ landed[k].landed_at < acked[key].acked_at

\* C6 Acknowledge-then-realert suppression: a poll iteration that observes an
\* approaching, non-landed snapshot for a key in state.acked leaves the key
\* in state.acked, does not put it into state.alerts and broadcasts nothing.
C6_AckedSuppressesRealert ==
  [][ (op' = "observe" /\ Has(acked, key') /\ isApproach(ac') /\ ~isLanded(ac'))
      => /\ acked' = acked
         /\ ~Has(alerts', key')
         /\ out' = NoMsg ]_vars

\* An approaching snapshot has just been observed for an acknowledged key.
C6_Witness ==
  /\ op = "observe" /\ isApproach(ac) /\ ~isLanded(ac)
  /\ Has(acked, key) /\ acked[key].snapshot # ac

\* C7 Landed is terminal: a key in state.landed stays there, and no poll
\* iteration or ACK message puts it into state.alerts or state.acked or emits
\* APPROACH_ALERT or ACK_OK for it.
C7_LandedIsTerminal ==
  [][ \A k \in DOMAIN landed :
        /\ Has(landed', k)
        /\ ~Has(alerts', k)
        /\ ~Has(acked', k)
        /\ ~(out'.key = k /\ out'.type \in {"APPROACH_ALERT", "ACK_OK"}) ]_vars

\* An approaching snapshot has just been observed for a landed key.
C7_Witness ==
  /\ op = "observe" /\ isApproach(ac) /\ ~isLanded(ac)
  /\ Has(landed, key)

\* C10 Failed fetch skips the cycle: when the last attempt of fetchWithRetry
\* fails, the cycle processes no snapshot, leaves the three maps unchanged,
\* broadcasts nothing and schedules the next cycle.
C10_FailedFetchSkipsCycle ==
  [][ (pc = "fetch" /\ i = TRIES - 1 /\ op' = "exhausted")
      => /\ n' = 0
         /\ alerts' = alerts /\ acked' = acked /\ landed' = landed
         /\ out' = NoMsg
         /\ pc' = "idle" /\ timers' = 1 ]_vars

\* All attempts of a cycle have just failed while an alert was standing.
C10_Witness ==
  /\ op = "exhausted" /\ i = TRIES - 1 /\ n = 0
  /\ alerts # EmptyMap /\ acked # EmptyMap
  /\ timers = 1

\* C16 Acknowledgement stays responsive: while a poll cycle awaits the upstream
\* (a pending fetch or a backoff sleep), an ACK for a key in state.alerts can
\* be handled at once; it moves the key to state.acked and sends ACK_OK and
\* leaves the cycle where it is; and from then on the key stays acknowledged
\* or landed and no poll iteration emits APPROACH_ALERT for it, so the batch
\* of that cycle emits none.
C16_AckStaysResponsive ==
  /\ [] (pc \in {"fetch", "sleep"}
         => \A k \in DOMAIN alerts : ENABLED message([type |-> "ACK", key |-> k]))
  /\ [][ /\ (op' = "ACK" /\ pc \in {"fetch", "sleep"} /\ Has(alerts, key'))
            => /\ ~Has(alerts', key') /\ Has(acked', key')
               /\ out' = Reply("ACK_OK", key')
               /\ pc' = pc /\ i' = i /\ n' = n /\ timers' = timers
         /\ \A k \in (DOMAIN acked) \cup (DOMAIN landed) :
              /\ Has(acked', k) \/ Has(landed', k)
              /\ ~(out'.type = "APPROACH_ALERT" /\ out'.key = k) ]_vars

\* An ACK has just been answered during the backoff sleep of a cycle.
C16_Witness ==
  /\ op = "ACK" /\ out = Reply("ACK_OK", key)
  /\ pc = "sleep" /\ i > 0
  /\ Has(acked, key) /\ ~Has(alerts, key)

\* C17 observe / acknowledge mutual exclusion: no message handler and no
\* connection handler runs between two iterations of a cycle's batch, and
\* the delete from state.alerts and the insert into state.acked of an ACK
\* are one step during which poll does not move.
C17_MutualExclusion ==
  [][ /\ op' \in {"ACK", "message", "connection"}
        => (pc # "loop" /\ pc' = pc /\ n' = n /\ len' = len)
      /\ (pc = "loop" /\ n > 0 /\ n < len)
        => op' \in {"observe", "tick"}
      /\ (op' = "ACK" /\ alerts' # alerts)
        => /\ DOMAIN alerts' = (DOMAIN alerts) \ {key'}
           /\ DOMAIN acked' = (DOMAIN acked) \cup {key'}
           /\ landed' = landed ]_vars

\* An ACK has just moved a key while a cycle was awaiting its fetch, another
\* alert standing.
C17_Witness ==
  /\ op = "ACK" /\ out.type = "ACK_OK" /\ pc = "fetch"
  /\ Has(acked, key) /\ alerts # EmptyMap

\* C32 Non-qualifying observation is a no-op: a snapshot that is neither
\* landed (altitude under 200 ft and ground speed under 50 kt, both known) nor
\* an approach leaves alerts, acked and landed unchanged and broadcasts
\* nothing; and a key leaves alerts only by an ACK for that key or by a landed
\* snapshot of that key.
C32_NonQualifyingIsNoOp ==
  [][ /\ (/\ op' = "observe"
          /\ ~(/\ ac'.alt_ft # null /\ ac'.alt_ft < 200
               /\ ac'.gs_kts # null /\ ac'.gs_kts < 50)
          /\ ~isApproach(ac'))
         => /\ alerts' = alerts /\ acked' = acked /\ landed' = landed
            /\ out' = NoMsg
      /\ \A k \in DOMAIN alerts :
           ~Has(alerts', k)
           => \/ op' = "ACK" /\ key' = k /\ Has(acked', k)
              \/ /\ op' = "observe" /\ key' = k /\ Has(landed', k)
                 /\ ac'.alt_ft # null /\ ac'.alt_ft < 200
                 /\ ac'.gs_kts # null /\ ac'.gs_kts < 50 ]_vars

\* A climbing snapshot of a flight under alert has just been observed: the
\* alert is still there.
C32_Witness ==
  /\ op = "observe" /\ classified /\ ~isApproach(ac)
  /\ Has(alerts, key) /\ out = NoMsg

\* C33 At most one ACK_OK per key: over any interleaving of poll cycles and
\* ACK messages, at most one ACK_OK has ever been sent for a given key, and
\* an APPROACH_ALERT for the key was broadcast before it.
C33_AtMostOneAckOk ==
  /\ \A k \in DOMAIN sent.ackOk :
        sent.ackOk[k] <= 1 /\ k \in sent.alerted
  /\ (op = "ACK" /\ out.type = "ACK_OK")
     => (Has(sent.ackOk, key) /\ sent.ackOk[key] = 1)

\* An ACK for a key that was acknowledged before has just been handled, while
\* a later snapshot of the flight had landed: it got no ACK_OK.
C33_Witness ==
  /\ op = "ACK" /\ out = NoMsg
  /\ Has(sent.ackOk, key) /\ sent.ackOk[key] = 1
  /\ Has(landed, key)

----------------------------------------------------------------------------
\* part_000 lines 167-440: OAuth2 token, primary / fallback source, runway
\* gate restricted to the close-in radius.  The locals of fetchWithRetry (i,
\* delay) and of fetchTraffic (t0) are reset when their call returns.
\* getOpenSkyToken() is taken here by its two outcomes; its cache and the
\* statuses answered to fetchWithRetry are detailed under SpecOpenSky below.

MaxEmpty == 4                \* cap of consecutiveOpenSkyEmpty in the model

OPEN_SKY_EMPTY_LIMIT == 3
COOLDOWN == 2                \* 2 * 60 * 1000 ms; one clock tick is a minute

T_isAlignedRunway_trackRequired(track, d_km) ==
  IF d_km > CLOSE_IN_KM THEN TRUE
  ELSE track # null
       /\ \E hdg \in RUNWAY_HEADINGS : angDiff(track, hdg) <= RUNWAY_TOL
T_isAlignedRunway_everywhere(track, d_km) ==
  IF track = null THEN TRUE
  ELSE \E hdg \in RUNWAY_HEADINGS : angDiff(track, hdg) <= RUNWAY_TOL
T_isAlignedRunway(track, d_km) ==
  IF track = null \/ d_km > CLOSE_IN_KM THEN TRUE
  ELSE \E hdg \in RUNWAY_HEADINGS : angDiff(track, hdg) <= RUNWAY_TOL

T_isApproach_altUnchecked(a) ==
  IF a.d_km > RADIUS_KM THEN FALSE
  ELSE IF a.alt_ft > ALT_MAX_FT THEN FALSE
  ELSE IF a.vs_fpm # null /\ a.vs_fpm > 0 THEN FALSE
  ELSE IF ~T_isAlignedRunway(a.track_deg, a.d_km) THEN FALSE
  ELSE IF a.gs_kts # null /\ a.gs_kts > MIN_GS_KTS /\ EtaTooLong(a) THEN FALSE
  ELSE TRUE

T_isApproach(a) ==
  IF a.d_km > RADIUS_KM THEN FALSE
  ELSE IF a.alt_ft = null \/ a.alt_ft > ALT_MAX_FT THEN FALSE
  ELSE IF a.vs_fpm # null /\ a.vs_fpm > 0 THEN FALSE
  ELSE IF ~T_isAlignedRunway(a.track_deg, a.d_km) THEN FALSE
  ELSE IF a.gs_kts # null /\ a.gs_kts > MIN_GS_KTS /\ EtaTooLong(a) THEN FALSE
  ELSE TRUE

T_Init ==
  /\ alerts = EmptyMap /\ acked = EmptyMap /\ landed = EmptyMap
  /\ pc = "token" /\ i = 0 /\ delay = DELAY_0 /\ len = 0 /\ n = 0 /\ timers = 0
  /\ now = 0
  /\ consecutiveOpenSkyEmpty = 0 /\ fallbackUntil = 0 /\ t0 = 0
  /\ osToken = nostr /\ osTokenExp = 0 /\ status = 0 /\ verdict = FALSE
  /\ bearer = nostr /\ AsideInit
  /\ op = "start" /\ key = nostr /\ ac = NoSnap /\ classified = FALSE
  /\ out = NoMsg

\* finally { setTimeout(poll, ...) }.
T_Reschedule_dropped ==
  /\ pc' = "idle"
  /\ timers' = timers
T_Reschedule_twice ==
  /\ pc' = "idle"
  /\ timers' = timers + 2
T_Reschedule ==
  /\ pc' = "idle"
  /\ timers' = timers + 1

\* `const inFallback = now < fallbackUntil`.
T_inFallback_never == FALSE
T_inFallback == now < fallbackUntil

\* The timer fires: poll() calls fetchTraffic(), which reads the clock and asks
\* the primary source unless a cooldown window is open.
T_poll ==
  /\ pc = "idle" /\ timers > 0
  /\ timers' = timers - 1
  /\ len' = 0 /\ n' = 0
  /\ t0' = now
  /\ pc' = IF T_inFallback THEN "secondary" ELSE "token"
  /\ Did("poll")
  /\ UNCHANGED <<store, retry, now, consecutiveOpenSkyEmpty, fallbackUntil,
                 detail>>

\* fetchOpenSky() rejected or returned []: `.catch(() => [])`, the run of empty
\* results is counted and the secondary source is asked.
T_primaryEmpty(o) ==
  /\ consecutiveOpenSkyEmpty < MaxEmpty
  /\ consecutiveOpenSkyEmpty' = consecutiveOpenSkyEmpty + 1
  /\ fallbackUntil' = IF consecutiveOpenSkyEmpty + 1 >= OPEN_SKY_EMPTY_LIMIT
                      THEN t0 + COOLDOWN ELSE fallbackUntil
  /\ pc' = "secondary"
  /\ i' = 0 /\ delay' = DELAY_0
  /\ Did(o)
  /\ UNCHANGED <<store, batch, timers, now, t0, detail>>

\* getOpenSkyToken() returns a token: fetchWithRetry makes its first attempt.
T_tokenOk ==
  /\ pc = "token"
  /\ pc' = "fetch" /\ i' = 0 /\ delay' = DELAY_0
  /\ Did("token")
  /\ UNCHANGED <<store, batch, timers, now, source>>

\* getOpenSkyToken() throws (no credentials, or the exchange is refused).
T_tokenFailed ==
  /\ pc = "token"
  /\ T_primaryEmpty("tokenFailed")

\* An attempt answers res.ok and the body parses to `size` >= 1 snapshots.
T_fetchOk(size) ==
  /\ pc = "fetch" /\ size > 0
  /\ consecutiveOpenSkyEmpty' = 0
  /\ pc' = "loop" /\ len' = size
  /\ i' = 0 /\ delay' = DELAY_0 /\ t0' = 0
  /\ Did("fetched")
  /\ UNCHANGED <<store, n, timers, now, fallbackUntil, detail>>

\* An attempt answers res.ok and the body holds no usable state vector.
T_fetchOkEmpty ==
  /\ pc = "fetch"
  /\ T_primaryEmpty("fetchedEmpty")

\* `if (i === tries - 1) throw e`: the attempt that just failed was the last.
T_lastTry_oneMore == i = TRIES
T_lastTry == i = TRIES - 1

\* An attempt fails and attempts are left: fetchWithRetry sleeps.
T_fetchRetry ==
  /\ pc = "fetch" /\ ~T_lastTry
  /\ pc' = "sleep"
  /\ Did("attemptFailed")
  /\ UNCHANGED <<store, retry, batch, timers, now, source>>

\* The sleep ends.
T_fetchWake ==
  /\ pc = "sleep"
  /\ delay' = IF delay * 2 < DELAY_CAP THEN delay * 2 ELSE DELAY_CAP
  /\ i' = i + 1
  /\ pc' = "fetch"
  /\ Did("retry")
  /\ UNCHANGED <<store, batch, timers, now, source>>

\* The last attempt fails: fetchWithRetry throws and fetchOpenSky rejects.
T_fetchExhausted ==
  /\ pc = "fetch" /\ T_lastTry
  /\ T_primaryEmpty("exhausted")

\* res.json() rejects.
T_fetchBadBody ==
  /\ pc = "fetch"
  /\ T_primaryEmpty("badBody")

\* fetchADSBxRapid() gives nothing: it returns [] for want of a RAPIDAPI_KEY
\* (o = "secondaryNoKey"), or its request fails or answers a non-OK status and
\* it rejects (o = "secondaryFailed"), which `.catch(() => [])` turns into [].
T_secondaryUnavailable_rejects(o) ==
  /\ pc = "secondary"
  /\ T_Reschedule
  /\ t0' = 0
  /\ Did(o)
  /\ UNCHANGED <<store, retry, batch, now, consecutiveOpenSkyEmpty,
                 fallbackUntil, detail>>
T_secondaryUnavailable(o) ==
  /\ pc = "secondary"
  /\ pc' = "loop" /\ len' = 0
  /\ t0' = 0
  /\ Did(o)
  /\ UNCHANGED <<store, retry, n, timers, now, consecutiveOpenSkyEmpty,
                 fallbackUntil, detail>>

\* fetchADSBxRapid() answers: `size` snapshots.
T_secondary(size) ==
  /\ pc = "secondary"
  /\ pc' = "loop" /\ len' = size
  /\ t0' = 0
  /\ Did("fetchedSecondary")
  /\ UNCHANGED <<store, retry, n, timers, now, consecutiveOpenSkyEmpty,
                 fallbackUntil, detail>>

\* `!state.acked.has(key) && !state.landed.has(key)`.
T_canAlert(k) == ~Has(acked, k) /\ ~Has(landed, k)

\* The landing test comes first in the loop body and ends the iteration.
T_routesToLanded_approachFirst(a) == isLanded(a) /\ ~T_isApproach(a)
T_routesToLanded(a) == isLanded(a)

\* One iteration of `for (const ac of items)`.
T_observe(a, rnd) ==
  /\ pc = "loop" /\ n < len
  /\ n' = n + 1
  /\ op' = "observe" /\ ac' = a /\ key' = flightKey(a, rnd)
  /\ LET k == flightKey(a, rnd) IN
     IF T_routesToLanded(a) THEN
       /\ alerts' = MapDelete(alerts, k)
       /\ acked' = MapDelete(acked, k)
       /\ landed' = MapSet(landed, k, [landed_at |-> now, snapshot |-> a])
       /\ out' = Broadcast("LANDED", k, a)
       /\ classified' = FALSE
     ELSE
       /\ classified' = TRUE
       /\ IF T_isApproach(a) /\ T_canAlert(k) THEN
            /\ alerts' = MapSet(alerts, k, [snapshot |-> a])
            /\ out' = Broadcast("APPROACH_ALERT", k, a)
          ELSE
            /\ alerts' = alerts
            /\ out' = NoMsg
       /\ UNCHANGED <<acked, landed>>
  /\ UNCHANGED <<pc, retry, len, timers, now, source>>

\* An exception leaves the try block in the middle of the batch: catch logs it
\* and finally runs.  (Nothing in the loop body is known to throw; this is
\* what poll does if something does.)
T_loopThrows ==
  /\ pc = "loop" /\ n < len
  /\ T_Reschedule
  /\ Did("threw")
  /\ UNCHANGED <<store, retry, batch, now, source>>

\* The batch is exhausted: finally runs.
T_loopEnd ==
  /\ pc = "loop" /\ n = len
  /\ T_Reschedule
  /\ Did("cycleDone")
  /\ UNCHANGED <<store, retry, batch, now, source>>

\* ws.on("message"): the whole handler.  In the ACK branch
\* `state.alerts.delete(key)` names `key`, which is not in scope: the module is
\* an ES module (strict), so the statement throws a ReferenceError, which the
\* handler's `catch {}` swallows before anything is written or sent.
T_message(msg) ==
  /\ pc # "loop"
  /\ IF msg.type = "ACK" /\ msg.key # nostr THEN
       /\ op' = "ACK" /\ key' = msg.key /\ ac' = NoSnap /\ classified' = FALSE
       /\ out' = NoMsg
     ELSE
       Did("message")
  /\ UNCHANGED <<store, pc, retry, batch, timers, now, source>>

\* wss.on("connection"): registers the listener and sends { type: "INIT" }.
T_connection ==
  /\ pc # "loop"
  /\ op' = "connection" /\ key' = nostr /\ ac' = NoSnap /\ classified' = FALSE
  /\ out' = Reply("INIT", nostr)
  /\ UNCHANGED <<store, pc, retry, batch, timers, now, source>>

\* The steps of the poll() call chain.
T_PollChain ==
  \/ T_poll
  \/ T_tokenOk
  \/ T_tokenFailed
  \/ \E size \in 1..MaxBatch : T_fetchOk(size)
  \/ T_fetchOkEmpty
  \/ T_fetchRetry
  \/ T_fetchWake
  \/ T_fetchExhausted
  \/ T_fetchBadBody
  \/ \E size \in 0..MaxBatch : T_secondary(size)
  \/ \E o \in {"secondaryNoKey", "secondaryFailed"} : T_secondaryUnavailable(o)
  \/ \E a \in Snapshots, rnd \in UnkKeys : T_observe(a, rnd)
  \/ T_loopThrows
  \/ T_loopEnd

T_Next ==
  \/ Tick
  \/ T_PollChain
  \/ \E msg \in Messages : T_message(msg)
  \/ T_connection

SpecTraffic == T_Init /\ [][T_Next]_vars

\* Timers fire and every awaited promise settles.
FairSpecTraffic == SpecTraffic /\ WF_vars(T_PollChain)

----------------------------------------------------------------------------
\* Properties of part_000 lines 167-440, checked under SpecTraffic.

\* C2 Idempotent re-observation: a poll iteration that observes an approaching,
\* non-landed snapshot for a key already in state.alerts (and in neither acked
\* nor landed) broadcasts no APPROACH_ALERT.
C2_NoRepeatedAlert ==
  [][ (/\ op' = "observe" /\ T_isApproach(ac') /\ ~isLanded(ac')
       /\ Has(alerts, key') /\ ~Has(acked, key') /\ ~Has(landed, key'))
      => out'.type # "APPROACH_ALERT" ]_vars

\* C3 LANDED once: a poll iteration that observes a snapshot satisfying the
\* landing test for a key already in state.landed broadcasts nothing and
\* leaves state.landed unchanged.
C3_LandedOnce ==
  [][ (op' = "observe" /\ isLanded(ac') /\ Has(landed, key'))
      => (out' = NoMsg /\ landed' = landed) ]_vars

\* C4 acknowledge success path: an ACK message whose key is in state.alerts
\* removes the key from state.alerts, inserts it into state.acked with the
\* snapshot last stored in state.alerts, and sends ACK_OK to the requester.
C4_AckMovesAlert ==
  [][ (op' = "ACK" /\ Has(alerts, key'))
      => /\ ~Has(alerts', key')
         /\ Has(acked', key')
         /\ acked'[key'].snapshot = alerts[key'].snapshot
         /\ out' = Reply("ACK_OK", key') ]_vars

\* C8 Landing precedence: a snapshot that satisfies the landing test and would
\* satisfy isApproach is routed to state.landed, leaves state.alerts and
\* state.acked without its key, and is not passed to isApproach.
C8_LandingPrecedence ==
  [][ (op' = "observe" /\ isLanded(ac') /\ T_isApproach(ac'))
      => /\ Has(landed', key') /\ landed'[key'].snapshot = ac'
         /\ ~Has(alerts', key') /\ ~Has(acked', key')
         /\ out' = Broadcast("LANDED", key', ac')
         /\ ~classified' ]_vars

\* A snapshot that passes both tests has just been observed and sits in landed.
C8_Witness ==
  /\ op = "observe" /\ isLanded(ac) /\ T_isApproach(ac)
  /\ Has(landed, key) /\ landed[key].snapshot = ac
  /\ \E k \in DOMAIN alerts : k # key

\* C9 Poll loop is self-healing: however a cycle ends (the batch is exhausted
\* or an exception leaves the try block), it ends with exactly one timer
\* pending, and poll cycles start again and again.
C9_PollSelfHealing ==
  /\ [][ (pc # "idle" /\ pc' = "idle") => (timers = 0 /\ timers' = 1) ]_vars
  /\ []<>(op = "poll")

\* A cycle has just been left by an exception after part of its batch.
C9_Witness ==
  /\ op = "threw" /\ n > 0 /\ n < len
  /\ pc = "idle" /\ timers = 1

\* C11 Retry budget: fetchWithRetry makes at most 4 attempts per invocation
\* and terminates: an attempt that answers OK ends the invocation at once, the
\* failure of the fourth attempt is thrown to the caller with no sleep after
\* it, and every invocation is left.
C11_RetryBudget ==
  /\ [][ /\ (pc' \in {"fetch", "sleep"} => i' + 1 <= 4)
         /\ (pc = "fetch" /\ op' \in {"fetched", "fetchedEmpty"}
               => pc' \notin {"fetch", "sleep"})
         /\ (pc = "fetch" /\ i + 1 = 4 /\ pc' # "fetch"
               => (pc' # "sleep" /\ op' \in {"exhausted", "fetched",
                                             "fetchedEmpty", "badBody"}))
         /\ (op' = "exhausted" => (pc = "fetch" /\ i + 1 = 4)) ]_vars
  /\ (pc \in {"fetch", "sleep"}) ~> (pc \notin {"fetch", "sleep"})

\* The fourth attempt of an invocation has just failed: the failure went to
\* the caller, fetchTraffic, which counts an empty primary result.
C11_Witness ==
  /\ op = "exhausted" /\ pc = "secondary"
  /\ consecutiveOpenSkyEmpty = OPEN_SKY_EMPTY_LIMIT

C14_ExhaustedRetriesSurface ==
  [][ op' = "exhausted" => (pc' = "idle" /\ timers' = timers + 1) ]_vars

\* C15 Cycles never overlap: at every instant at most one poll cycle is
\* executing or pending on a timer; a timer is created only by the step that
\* ends a cycle, which follows its fetch, mutates no map and broadcasts
\* nothing, and no step of a cycle runs while a timer is pending.
C15_CyclesNeverOverlap ==
  /\ [] ((IF pc = "idle" THEN 0 ELSE 1) + timers <= 1)
  /\ [][ /\ timers' > timers
            => /\ pc = "loop" /\ pc' = "idle"
               /\ alerts' = alerts /\ acked' = acked /\ landed' = landed
               /\ out' = NoMsg
         /\ op' \in {"token", "tokenFailed", "fetched", "fetchedEmpty",
                     "attemptFailed", "retry", "exhausted", "badBody",
                     "fetchedSecondary", "observe", "threw", "cycleDone"}
            => (pc # "idle" /\ timers = 0) ]_vars

\* A cycle that raised an alert has ended and its successor is pending.
C15_Witness ==
  /\ op = "cycleDone" /\ pc = "idle" /\ timers = 1
  /\ n = len /\ len > 0 /\ alerts # EmptyMap

\* C18 Late-joiner seeding: the message sent to an observer on connection
\* lists the keys currently in state.alerts and those currently in
\* state.acked, so an alert raised before the connection is in it.
C18_LateJoinerSeeding ==
  [][ (op' = "connection" /\ alerts # EmptyMap)
      => /\ "alerts" \in DOMAIN out' /\ "acked" \in DOMAIN out'
         /\ {e.key : e \in out'.alerts} = DOMAIN alerts
         /\ {e.key : e \in out'.acked} = DOMAIN acked ]_vars

\* C25 Unavailable secondary degrades to empty: when the secondary source has
\* no key or its request fails, fetchTraffic returns an empty batch: poll
\* enters its loop with no snapshot, its catch does not run, and no map is
\* written.
C25_SecondaryDegradesToEmpty ==
  [][ op' \in {"secondaryNoKey", "secondaryFailed"}
      => /\ pc = "secondary" /\ pc' = "loop"
         /\ len' = 0 /\ n' = 0 /\ timers' = timers
         /\ alerts' = alerts /\ acked' = acked /\ landed' = landed
         /\ out' = NoMsg ]_vars

\* Inside a cooldown window, with an alert standing, the request to the
\* secondary source has just failed.
C25_Witness ==
  /\ op = "secondaryFailed" /\ pc = "loop" /\ len = 0
  /\ now < fallbackUntil /\ alerts # EmptyMap

\* C26 Primary is preferred: a first or second consecutive empty primary
\* result does not make the cycle query the secondary source; the secondary
\* is queried only by a cycle that starts inside a cooldown window.
C26_PrimaryPreferred ==
  [][ /\ (/\ op' \in {"tokenFailed", "fetchedEmpty", "exhausted", "badBody"}
          /\ consecutiveOpenSkyEmpty' < 3)
         => pc' # "secondary"
      /\ (pc # "secondary" /\ pc' = "secondary") => t0' < fallbackUntil ]_vars

\* C31 Cooldown re-entry needs a fresh run: once a cooldown window has
\* expired, a new window starts only after 3 consecutive empty primary results
\* counted from the expiry.  The primary is not called while a window is open,
\* and the run counter grows by one per empty primary result and is reset only
\* by a non-empty one: a window that replaces an expired one is therefore
\* opened with the counter at 3 (a run begun after a non-empty result) or at
\* 3 more than the 3 or more it held when the expired window opened.
C31_CooldownNeedsFreshRun ==
  [][ (/\ op' \in {"tokenFailed", "fetchedEmpty", "exhausted", "badBody"}
       /\ fallbackUntil > 0 /\ t0 >= fallbackUntil
       /\ fallbackUntil' # fallbackUntil)
      => \/ consecutiveOpenSkyEmpty' = OPEN_SKY_EMPTY_LIMIT
         \/ consecutiveOpenSkyEmpty' >= 2 * OPEN_SKY_EMPTY_LIMIT ]_vars

----------------------------------------------------------------------------
\* part_000 lines 230-307 in detail: fetchOpenSky() as fetchTraffic calls it,
\* cycle after cycle, with the token cache of getOpenSkyToken() and the status
\* answered to each attempt of fetchWithRetry.  process.env is read at every
\* call and never written: credentials is drawn once.  pc is "idle" between two calls, "token" at
\* the cache test, "exchange" while the token request is pending, then "fetch"
\* and "sleep" as above.

MARGIN          == 1         \* 60_000 ms
DEFAULT_EXPIRES == 30        \* 1800 s

\* access_token and expires_in (in minutes, null when absent) of a token answer.
Tokens    == {"tokA", "tokB"}
ExpiresIn == {null, 2, 3}

\* Statuses of a failed attempt; NETWORK is a fetch() that throws.
NETWORK  == 0 - 1
Failures == {401, 404, 429, 500, NETWORK}

O_Init ==
  /\ alerts = EmptyMap /\ acked = EmptyMap /\ landed = EmptyMap
  /\ pc = "token" /\ i = 0 /\ delay = DELAY_0 /\ len = 0 /\ n = 0 /\ timers = 0
  /\ now = 0
  /\ consecutiveOpenSkyEmpty = 0 /\ fallbackUntil = 0 /\ t0 = 0
  /\ osToken = nostr /\ osTokenExp = 0 /\ status = 0 /\ verdict = FALSE
  /\ bearer = nostr
  /\ scheduled = [POLL_MS |-> 0, draw |-> 0, delay |-> 0]
  /\ parsed = [states |-> <<>>, threw |-> FALSE, out |-> <<>>]
  /\ tries = TRIES /\ slept = 0
  /\ clients = {} /\ threw = {} /\ delivered = {}
  /\ credentials \in BOOLEAN
  /\ sent = NoSent
  /\ op = "start" /\ key = nostr /\ ac = NoSnap /\ classified = FALSE
  /\ out = NoMsg

O_frame == UNCHANGED <<store, batch, timers, now, consecutiveOpenSkyEmpty,
                       fallbackUntil, t0, aside>>

\* fetchTraffic calls fetchOpenSky(), which calls getOpenSkyToken().
O_call ==
  /\ pc = "idle"
  /\ pc' = "token" /\ status' = 0 /\ bearer' = nostr
  /\ Did("call")
  /\ O_frame /\ UNCHANGED <<retry, osToken, osTokenExp, verdict>>

O_cached_noMargin == osToken # nostr /\ now < osTokenExp

\* `_osToken && now < _osTokenExp - 60_000`.
O_cached == osToken # nostr /\ now < osTokenExp - MARGIN

\* The cached token is returned: fetchWithRetry makes its first attempt.
O_tokenCached ==
  /\ pc = "token" /\ O_cached
  /\ pc' = "fetch" /\ i' = 0 /\ delay' = DELAY_0
  /\ bearer' = osToken
  /\ Did("tokenCached")
  /\ O_frame /\ UNCHANGED <<osToken, osTokenExp, status, verdict>>

\* `if (!cid || !csec) throw`: no usable token is cached and a credential is
\* missing; getOpenSkyToken throws before any request and fetchOpenSky
\* rejects.
O_noCredentials ==
  /\ pc = "token" /\ ~O_cached /\ ~credentials
  /\ pc' = "idle"
  /\ Did("noCredentials")
  /\ O_frame /\ UNCHANGED <<retry, detail>>

\* No usable token is cached: the token request is sent.
O_tokenMiss ==
  /\ pc = "token" /\ ~O_cached /\ credentials
  /\ pc' = "exchange"
  /\ Did("tokenRequested")
  /\ O_frame /\ UNCHANGED <<retry, detail>>

\* `(j.expires_in || 1800) * 1000`, in clock ticks.
O_lifetime(expires_in) ==
  IF expires_in = null \/ expires_in = 0 THEN DEFAULT_EXPIRES ELSE expires_in

\* The token request answers OK: the token is cached and the first attempt
\* of fetchWithRetry is made.
O_exchangeOk(tok, expires_in) ==
  /\ pc = "exchange"
  /\ osToken' = tok
  /\ osTokenExp' = now + O_lifetime(expires_in)
  /\ pc' = "fetch" /\ i' = 0 /\ delay' = DELAY_0
  /\ bearer' = tok
  /\ Did("token")
  /\ O_frame /\ UNCHANGED <<status, verdict>>

\* The token request fails or answers a non-OK status: getOpenSkyToken throws
\* and fetchOpenSky rejects.
O_exchangeFailed ==
  /\ pc = "exchange"
  /\ pc' = "idle"
  /\ Did("tokenFailed")
  /\ O_frame /\ UNCHANGED <<retry, detail>>

\* An attempt answers res.ok: fetchWithRetry returns it, `res.status === 401`
\* is false, and fetchOpenSky returns the parsed body or rejects if it is no
\* JSON.
O_fetchOk(o) ==
  /\ pc = "fetch"
  /\ status' = 200
  /\ pc' = "idle" /\ i' = 0 /\ delay' = DELAY_0
  /\ Did(o)
  /\ O_frame /\ UNCHANGED <<osToken, osTokenExp, verdict, bearer>>

\* An attempt answers the non-OK status s, or fetch() throws: the error is
\* caught in the loop; fetchWithRetry sleeps if attempts are left and throws
\* it otherwise, and then fetchOpenSky rejects.
O_fetchFailed(s) ==
  /\ pc = "fetch"
  /\ status' = s
  /\ IF T_lastTry
     THEN pc' = "idle" /\ i' = 0 /\ delay' = DELAY_0 /\ Did("exhausted")
     ELSE pc' = "sleep" /\ UNCHANGED retry /\ Did("attemptFailed")
  /\ O_frame /\ UNCHANGED <<osToken, osTokenExp, verdict, bearer>>

\* The sleep ends: the same request is sent again.
O_fetchWake ==
  /\ pc = "sleep"
  /\ delay' = IF delay * 2 < DELAY_CAP THEN delay * 2 ELSE DELAY_CAP
  /\ i' = i + 1
  /\ pc' = "fetch" /\ status' = 0
  /\ Did("retry")
  /\ O_frame /\ UNCHANGED <<osToken, osTokenExp, verdict, bearer>>

O_Next ==
  \/ Tick
  \/ O_call
  \/ O_tokenCached
  \/ O_noCredentials
  \/ O_tokenMiss
  \/ \E tok \in Tokens, expires_in \in ExpiresIn : O_exchangeOk(tok, expires_in)
  \/ O_exchangeFailed
  \/ \E o \in {"fetched", "badBody"} : O_fetchOk(o)
  \/ \E s \in Failures : O_fetchFailed(s)
  \/ O_fetchWake

SpecOpenSky == O_Init /\ [][O_Next]_vars

\* C13 Credential refresh on unauthorized: when the upstream answers the state
\* request with HTTP 401, the cached token is invalidated, a new token is
\* requested, and no failure is surfaced before the request has been retried
\* with it.
C13_RefreshOnUnauthorized ==
  [][ (pc = "fetch" /\ status' = 401)
      => /\ osToken' = nostr /\ osTokenExp' = 0
         /\ pc' = "exchange"
         /\ op' # "exhausted" ]_vars

\* C27 Only retryable failures are retried: fetchWithRetry sleeps and makes a
\* further attempt only after a status of 500 or more, a 429, or a network
\* exception; any other non-OK status is thrown to the caller after the one
\* attempt that received it.
C27_OnlyRetryableRetried ==
  [][ (pc = "fetch" /\ pc' = "sleep")
      => (status' >= 500 \/ status' = 429 \/ status' = NETWORK) ]_vars

\* C29 Token cache, as stated: whenever a token is cached and the current time
\* is earlier than its expiry minus the margin, getOpenSkyToken returns the
\* cached token without a token exchange; otherwise it performs exactly one
\* exchange, and a failed exchange leaves the cached token and its expiry
\* unchanged.
C29_TokenCache_asStated ==
  [][ /\ (pc = "token" /\ pc' # "token")
         => IF osToken # nostr /\ now < osTokenExp - MARGIN
            THEN /\ pc' = "fetch" /\ bearer' = osToken
                 /\ osToken' = osToken /\ osTokenExp' = osTokenExp
            ELSE pc' = "exchange"
      /\ (pc = "exchange" /\ pc' # "exchange")
         => \/ /\ pc' = "fetch" /\ osToken' \in Tokens /\ bearer' = osToken'
            \/ /\ pc' = "idle"
               /\ osToken' = osToken /\ osTokenExp' = osTokenExp
      /\ (pc # "exchange" /\ pc' = "exchange") => pc = "token" ]_vars

\* C29 Token cache, amended: whenever a token is cached and the current time
\* is earlier than its expiry minus the margin, getOpenSkyToken returns the
\* cached token without a token exchange; otherwise, if both credentials are
\* set, it performs exactly one exchange, and a failed exchange leaves the
\* cached token and its expiry unchanged; if a credential is missing it throws
\* without any exchange and leaves the cache unchanged.
C29_TokenCache ==
  [][ /\ (pc = "token" /\ pc' # "token")
         => IF osToken # nostr /\ now < osTokenExp - MARGIN
            THEN /\ pc' = "fetch" /\ bearer' = osToken
                 /\ osToken' = osToken /\ osTokenExp' = osTokenExp
            ELSE IF credentials
                 THEN pc' = "exchange"
                 ELSE /\ pc' = "idle"
                      /\ osToken' = osToken /\ osTokenExp' = osTokenExp
      /\ (pc = "exchange" /\ pc' # "exchange")
         => \/ /\ pc' = "fetch" /\ osToken' \in Tokens /\ bearer' = osToken'
            \/ /\ pc' = "idle"
               /\ osToken' = osToken /\ osTokenExp' = osTokenExp
      /\ (pc # "exchange" /\ pc' = "exchange") => pc = "token" ]_vars

\* An expired token is cached, the exchange that replaces it has failed, and
\* the expired token is still cached.
C29_Witness ==
  /\ op = "tokenFailed" /\ pc = "idle"
  /\ osToken # nostr /\ ~(now < osTokenExp - MARGIN)

----------------------------------------------------------------------------
\* part_000 lines 210-227 alone: isApproach called once on any snapshot.  The
\* position is always known: parseOpenSky and fetchADSBxRapid drop a record
\* without lat or lon.
K_d_km   == {0, 20, 30, 31, 80, 81}
K_alt_ft == {null, 0, 150, 10000, 10001}
K_gs_kts == {null, 0, 20, 21, 150, 600}
K_track  == {null, 0, 102, 103, 123, 143, 144, 303}
K_vs_fpm == {null, 0 - 500, 0, 1}

K_Snapshots == { [hex |-> "4CA1", callsign |-> "RYR1", d_km |-> d, brg |-> null,
                  alt_ft |-> alt, gs_kts |-> gs, track_deg |-> trk,
                  vs_fpm |-> vs] :
                 d \in K_d_km, alt \in K_alt_ft, gs \in K_gs_kts,
                 trk \in K_track, vs \in K_vs_fpm }

K_Init ==
  /\ alerts = EmptyMap /\ acked = EmptyMap /\ landed = EmptyMap
  /\ pc = "idle" /\ i = 0 /\ delay = DELAY_0 /\ len = 0 /\ n = 0 /\ timers = 0
  /\ now = 0
  /\ consecutiveOpenSkyEmpty = 0 /\ fallbackUntil = 0 /\ t0 = 0
  /\ osToken = nostr /\ osTokenExp = 0 /\ status = 0 /\ verdict = FALSE
  /\ bearer = nostr /\ AsideInit
  /\ op = "start" /\ key = nostr /\ ac \in K_Snapshots /\ classified = FALSE
  /\ out = NoMsg

\* isApproach(ac) is called and returns.
K_isApproach ==
  /\ op = "start"
  /\ op' = "isApproach" /\ classified' = TRUE
  /\ verdict' = T_isApproach(ac)
  /\ UNCHANGED <<store, pc, retry, batch, timers, now, consecutiveOpenSkyEmpty,
                 fallbackUntil, t0, osToken, osTokenExp, status, bearer, aside,
                 key, ac, out>>

K_Next == K_isApproach

SpecClassify == K_Init /\ [][K_Next]_vars

\* C20 Fail-closed altitude: isApproach returns false for every snapshot whose
\* alt_ft is null, whatever its position, track, vertical rate and ground
\* speed.
C20_FailClosedAltitude ==
  (op = "isApproach" /\ ac.alt_ft = null) => ~verdict

\* isApproach has just been called on a snapshot that passes every other
\* test: in range, descending, on the runway axis, close in time.
C20_Witness ==
  /\ op = "isApproach" /\ ac.alt_ft = null /\ ~verdict
  /\ ac.d_km = 20 /\ ac.vs_fpm = 0 - 500 /\ ac.track_deg = 123
  /\ ac.gs_kts = 150

\* The gates of isApproach other than the runway gate, as the claims word
\* them: distance within RADIUS_KM, altitude known and at most ALT_MAX_FT,
\* vertical rate unknown or not positive, ground speed unknown, at most 20 kt,
\* or giving an ETA of at most ETA_MAX_MIN.
OtherGatesPass(a) ==
  /\ a.d_km <= 80
  /\ a.alt_ft # null /\ a.alt_ft <= 10000
  /\ (a.vs_fpm = null \/ a.vs_fpm <= 0)
  /\ (a.gs_kts = null \/ a.gs_kts <= 20
        \/ a.d_km * 60 * 1000 <= 25 * a.gs_kts * 1852)

\* C21 Fail-open track: isApproach returns true for every snapshot with
\* unknown track that passes the distance, altitude, vertical-rate and ETA
\* gates, at any distance, within 30 km included.
C21_FailOpenTrack ==
  (op = "isApproach" /\ ac.track_deg = null /\ OtherGatesPass(ac)) => verdict

\* isApproach has just accepted a snapshot with unknown track 20 km out.
C21_Witness ==
  /\ op = "isApproach" /\ ac.track_deg = null /\ OtherGatesPass(ac)
  /\ ac.d_km = 20 /\ ac.gs_kts = 150 /\ verdict

\* The known track differs by more than RUNWAY_TOL from every runway heading.
OffRunwayAxis(a) ==
  /\ a.track_deg # null
  /\ \A hdg \in {123, 303} : angDiff(a.track_deg, hdg) > 20

\* C30 Close-in runway gate: a snapshot whose known track is off the runway
\* axis and that passes the other gates is classified approaching when it is
\* farther than 30 km, and rejected when it is at 30 km or closer.
C30_CloseInRunwayGate ==
  (op = "isApproach" /\ OffRunwayAxis(ac) /\ OtherGatesPass(ac))
  => (verdict <=> ac.d_km > 30)

\* isApproach has just accepted a snapshot 31 km out heading north.
C30_Witness ==
  /\ op = "isApproach" /\ OffRunwayAxis(ac) /\ OtherGatesPass(ac)
  /\ ac.d_km = 31 /\ ac.track_deg = 0 /\ verdict

----------------------------------------------------------------------------
\* part_000 lines 394-397 alone: the delay poll's finally passes to setTimeout,
\* for any CFG.POLL_MS (config.js sets 10000) and any random draw.

MIN_POLL_MS == 5000

\* Math.floor(Math.random() * 2000): Math.random() is in [0, 1).
D_Draws   == 0..1999
D_POLL_MS == {0 - 5000, 0, 1, 3999, 4000, 4001, 5000, 5999, 6000, 6001,
              10000, 60000}

Max(a, b) == IF a >= b THEN a ELSE b

\* `const jitter = 1000 - Math.floor(Math.random() * 2000)`.
T_jitter(r) == 1000 - r

\* `Math.max(5000, CFG.POLL_MS + jitter)`.
T_nextDelay_noFloor(poll_ms, r) == poll_ms + T_jitter(r)
T_nextDelay(poll_ms, r) == Max(MIN_POLL_MS, poll_ms + T_jitter(r))

D_Init ==
  /\ alerts = EmptyMap /\ acked = EmptyMap /\ landed = EmptyMap
  /\ pc = "loop" /\ i = 0 /\ delay = DELAY_0 /\ len = 0 /\ n = 0 /\ timers = 0
  /\ now = 0
  /\ consecutiveOpenSkyEmpty = 0 /\ fallbackUntil = 0 /\ t0 = 0
  /\ osToken = nostr /\ osTokenExp = 0 /\ status = 0 /\ verdict = FALSE
  /\ bearer = nostr
  /\ scheduled \in [POLL_MS : D_POLL_MS, draw : D_Draws, delay : {0}]
  /\ parsed = [states |-> <<>>, threw |-> FALSE, out |-> <<>>]
  /\ tries = TRIES /\ slept = 0
  /\ clients = {} /\ threw = {} /\ delivered = {}
  /\ credentials = TRUE
  /\ sent = NoSent
  /\ op = "start" /\ key = nostr /\ ac = NoSnap /\ classified = FALSE
  /\ out = NoMsg

\* finally { ...; setTimeout(poll, delay) }.
D_schedule ==
  /\ pc = "loop"
  /\ scheduled' = [scheduled EXCEPT
                     !.delay = T_nextDelay(scheduled.POLL_MS, scheduled.draw)]
  /\ T_Reschedule
  /\ Did("scheduled")
  /\ UNCHANGED <<store, retry, batch, now, consecutiveOpenSkyEmpty,
                 fallbackUntil, t0, osToken, osTokenExp, status, verdict,
                 bearer, parsed, tries, slept, clients, threw, delivered,
                 credentials, sent>>

D_Next == D_schedule

SpecDelay == D_Init /\ [][D_Next]_vars

\* C22 Next-cycle delay: for every CFG.POLL_MS and every random draw, the
\* delay passed to the timer is at least 5000 ms and equals
\* max(5000, POLL_MS + j) for an integer j between -1000 and 1000.
C22_NextCycleDelay ==
  op = "scheduled"
  => /\ scheduled.delay >= 5000
     /\ \E j \in (0 - 1000)..1000 :
           scheduled.delay = Max(5000, scheduled.POLL_MS + j)

\* A timer has just been set at the floor for an interval configured too
\* short, and the draw was the largest one.
C22_Witness ==
  /\ op = "scheduled" /\ timers = 1
  /\ scheduled.POLL_MS = 4000 /\ scheduled.draw = 1999
  /\ scheduled.delay = 5000

----------------------------------------------------------------------------
\* part_000 lines 370-437 with the observers in view: wss.clients, and for
\* every broadcast the clients whose send() throws.  fetchTraffic is taken by
\* its result, a batch of some size; the message handler, which writes
\* nothing in this version, is left out.

Observers == {"o1", "o2"}

B_Init ==
  /\ alerts = EmptyMap /\ acked = EmptyMap /\ landed = EmptyMap
  /\ pc = "fetch" /\ i = 0 /\ delay = DELAY_0 /\ len = 0 /\ n = 0 /\ timers = 0
  /\ now = 0
  /\ consecutiveOpenSkyEmpty = 0 /\ fallbackUntil = 0 /\ t0 = 0
  /\ osToken = nostr /\ osTokenExp = 0 /\ status = 0 /\ verdict = FALSE
  /\ bearer = nostr /\ AsideInit
  /\ op = "start" /\ key = nostr /\ ac = NoSnap /\ classified = FALSE
  /\ out = NoMsg

B_frame == UNCHANGED <<retry, now, consecutiveOpenSkyEmpty, fallbackUntil, t0,
                       osToken, osTokenExp, status, verdict, bearer,
                       scheduled, parsed, tries, slept, credentials, sent>>

\* The timer fires: poll() calls fetchTraffic().
B_poll ==
  /\ pc = "idle" /\ timers > 0
  /\ timers' = timers - 1
  /\ pc' = "fetch" /\ len' = 0 /\ n' = 0
  /\ Did("poll")
  /\ B_frame /\ UNCHANGED <<store, clients, threw, delivered>>

\* fetchTraffic() returns a batch of `size` snapshots.
B_fetched(size) ==
  /\ pc = "fetch"
  /\ pc' = "loop" /\ len' = size
  /\ Did("fetched")
  /\ B_frame /\ UNCHANGED <<store, n, timers, clients, threw, delivered>>

\* wss.clients.forEach(c => { try { c.send(s); } catch {} }), when send()
\* throws for the clients in `bad`.
B_broadcast_unguarded(bad) ==
  /\ threw' = bad
  /\ delivered' = IF bad = {} THEN clients ELSE {}
B_broadcast(bad) ==
  /\ threw' = bad
  /\ delivered' = clients \ bad

\* One iteration of `for (const ac of items)`.
B_observe(a, rnd, bad) ==
  /\ pc = "loop" /\ n < len
  /\ n' = n + 1
  /\ op' = "observe" /\ ac' = a /\ key' = flightKey(a, rnd)
  /\ LET k == flightKey(a, rnd) IN
     IF T_routesToLanded(a) THEN
       /\ alerts' = MapDelete(alerts, k)
       /\ acked' = MapDelete(acked, k)
       /\ landed' = MapSet(landed, k, [landed_at |-> now, snapshot |-> a])
       /\ out' = Broadcast("LANDED", k, a)
       /\ B_broadcast(bad)
       /\ classified' = FALSE
     ELSE
       /\ classified' = TRUE
       /\ IF T_isApproach(a) /\ T_canAlert(k) THEN
            /\ alerts' = MapSet(alerts, k, [snapshot |-> a])
            /\ out' = Broadcast("APPROACH_ALERT", k, a)
            /\ B_broadcast(bad)
          ELSE
            /\ alerts' = alerts
            /\ out' = NoMsg
            /\ bad = {} /\ threw' = {} /\ delivered' = {}
       /\ UNCHANGED <<acked, landed>>
  /\ B_frame /\ UNCHANGED <<pc, len, timers, clients>>

\* wss.on("connection"): the observer joins wss.clients and is sent INIT.
B_connection(c) ==
  /\ pc # "loop" /\ c \notin clients
  /\ clients' = clients \cup {c}
  /\ op' = "connection" /\ key' = nostr /\ ac' = NoSnap /\ classified' = FALSE
  /\ out' = Reply("INIT", nostr)
  /\ B_frame /\ UNCHANGED <<store, pc, batch, timers, threw, delivered>>

\* The socket of an observer closes: ws takes it out of wss.clients.
B_close(c) ==
  /\ pc # "loop" /\ c \in clients
  /\ clients' = clients \ {c}
  /\ Did("close")
  /\ B_frame /\ UNCHANGED <<store, pc, batch, timers, threw, delivered>>

B_Next ==
  \/ B_poll
  \/ \E size \in 0..MaxBatch : B_fetched(size)
  \/ \E a \in Snapshots, rnd \in UnkKeys, bad \in SUBSET clients :
        B_observe(a, rnd, bad)
  \/ T_loopEnd
  \/ \E c \in Observers : B_connection(c)
  \/ \E c \in Observers : B_close(c)

SpecBroadcast == B_Init /\ [][B_Next]_vars

\* C23 Observer isolation: when send() throws for some observers during a
\* broadcast, every other connected observer still takes the event, the
\* iteration ends as usual so that the cycle goes on with the remaining
\* snapshots, and the map entry that the event announces is kept.
C23_ObserverIsolation ==
  [][ (op' = "observe" /\ out'.to = "all")
      => /\ delivered' = clients \ threw'
         /\ pc' = "loop" /\ n' = n + 1 /\ len' = len
         /\ out'.type = "APPROACH_ALERT"
            => (Has(alerts', key') /\ alerts'[key'].snapshot = ac')
         /\ out'.type = "LANDED"
            => (Has(landed', key') /\ landed'[key'].snapshot = ac') ]_vars

\* An alert has just been raised; the send to one observer threw, the other
\* observer took the event, and a snapshot of the batch is still to come.
C23_Witness ==
  /\ op = "observe" /\ out.type = "APPROACH_ALERT"
  /\ threw # {} /\ delivered # {}
  /\ Has(alerts, key) /\ pc = "loop" /\ n < len

----------------------------------------------------------------------------
\* part_000 lines 260-278 alone: parseOpenSky on any array data.states.  A
\* record is an array (of which icao24, lat and lon are kept here), null, or
\* a value that is not iterable, such as an object.

MaxRecords == 3

P_Records == {
  [kind |-> "array",  icao24 |-> "4ca1", lat |-> 49,   lon |-> 2],
  [kind |-> "array",  icao24 |-> "3c66", lat |-> 50,   lon |-> 3],
  [kind |-> "array",  icao24 |-> "aaaa", lat |-> null, lon |-> 2],
  [kind |-> "array",  icao24 |-> "bbbb", lat |-> 49,   lon |-> null],
  [kind |-> "null",   icao24 |-> nostr,  lat |-> null, lon |-> null],
  [kind |-> "object", icao24 |-> nostr,  lat |-> null, lon |-> null] }

P_States == UNION { [1..m -> P_Records] : m \in 0..MaxRecords }

\* String.prototype.toUpperCase on the identifiers above.
toUpperCase(str) ==
  CASE str = "4ca1" -> "4CA1"
    [] str = "3c66" -> "3C66"
    [] str = "aaaa" -> "AAAA"
    [] str = "bbbb" -> "BBBB"
    [] OTHER -> str

\* The object pushed for a record with a position.
P_snapshot(rec) == [hex |-> toUpperCase(rec.icao24), lat |-> rec.lat,
                    lon |-> rec.lon]

\* The for-loop of parseOpenSky from record number m on, `acc` being `out`:
\* `const [...] = s` throws a TypeError when s is not iterable, and the
\* exception leaves the function.
RECURSIVE parseFrom(_, _, _)
parseFrom(states, m, acc) ==
  IF m > Len(states) THEN [threw |-> FALSE, out |-> acc]
  ELSE IF states[m].kind # "array" THEN [threw |-> TRUE, out |-> <<>>]
  ELSE IF states[m].lat = null \/ states[m].lon = null
       THEN parseFrom(states, m + 1, acc)
  ELSE parseFrom(states, m + 1, Append(acc, P_snapshot(states[m])))

parseOpenSky(states) == parseFrom(states, 1, <<>>)

P_Init ==
  /\ alerts = EmptyMap /\ acked = EmptyMap /\ landed = EmptyMap
  /\ pc = "fetch" /\ i = 0 /\ delay = DELAY_0 /\ len = 0 /\ n = 0 /\ timers = 0
  /\ now = 0
  /\ consecutiveOpenSkyEmpty = 0 /\ fallbackUntil = 0 /\ t0 = 0
  /\ osToken = nostr /\ osTokenExp = 0 /\ status = 0 /\ verdict = FALSE
  /\ bearer = nostr
  /\ scheduled = [POLL_MS |-> 0, draw |-> 0, delay |-> 0]
  /\ parsed \in [states : P_States, threw : {FALSE}, out : {<<>>}]
  /\ tries = TRIES /\ slept = 0
  /\ clients = {} /\ threw = {} /\ delivered = {}
  /\ credentials = TRUE
  /\ sent = NoSent
  /\ op = "start" /\ key = nostr /\ ac = NoSnap /\ classified = FALSE
  /\ out = NoMsg

\* `return parseOpenSky(data)` in fetchOpenSky.
P_parse ==
  /\ op = "start"
  /\ parsed' = [states |-> parsed.states,
                threw  |-> parseOpenSky(parsed.states).threw,
                out    |-> parseOpenSky(parsed.states).out]
  /\ Did("parsed")
  /\ UNCHANGED <<store, pc, retry, batch, timers, now, consecutiveOpenSkyEmpty,
                 fallbackUntil, t0, osToken, osTokenExp, status, verdict,
                 bearer, scheduled, tries, slept, clients, threw, delivered,
                 credentials, sent>>

P_Next == P_parse

SpecParse == P_Init /\ [][P_Next]_vars

\* The records of data.states that are arrays holding a position.
WellFormed(rec) == rec.kind = "array" /\ rec.lat # null /\ rec.lon # null

\* C24 Bad record does not abort the batch: whatever bad records data.states
\* holds (no latitude, no longitude, null, not an array), parseOpenSky does
\* not throw and returns one snapshot for every other record, in order.
C24_BadRecordDropped ==
  op = "parsed"
  => /\ ~parsed.threw
     /\ Len(parsed.out) = Len(SelectSeq(parsed.states, WellFormed))
     /\ \A m \in 1..Len(parsed.out) :
           parsed.out[m].hex
             = toUpperCase(SelectSeq(parsed.states, WellFormed)[m].icao24)

----------------------------------------------------------------------------
\* part_000 lines 190-204 alone: one call of fetchWithRetry(url, options,
\* tries) for any attempt budget.  pc is "fetch" at the loop test and while an
\* attempt is pending, "sleep" during a backoff, "idle" once the call has
\* returned or thrown.  slept is 0 while no sleep is in progress.

MaxTries == 6      \* the largest attempt budget passed to fetchWithRetry

\* Math.floor(Math.random() * 400): Math.random() is in [0, 1).
JITTER   == 400
R_Draws  == 0..(JITTER - 1)
R_Status == {404, 503, NETWORK}

R_Init ==
  /\ alerts = EmptyMap /\ acked = EmptyMap /\ landed = EmptyMap
  /\ pc = "fetch" /\ i = 0 /\ delay = DELAY_0 /\ len = 0 /\ n = 0 /\ timers = 0
  /\ now = 0
  /\ consecutiveOpenSkyEmpty = 0 /\ fallbackUntil = 0 /\ t0 = 0
  /\ osToken = nostr /\ osTokenExp = 0 /\ status = 0 /\ verdict = FALSE
  /\ bearer = nostr
  /\ scheduled = [POLL_MS |-> 0, draw |-> 0, delay |-> 0]
  /\ parsed = [states |-> <<>>, threw |-> FALSE, out |-> <<>>]
  /\ tries \in 0..MaxTries /\ slept = 0
  /\ clients = {} /\ threw = {} /\ delivered = {}
  /\ credentials = TRUE
  /\ sent = NoSent
  /\ op = "start" /\ key = nostr /\ ac = NoSnap /\ classified = FALSE
  /\ out = NoMsg

R_frame == UNCHANGED <<store, batch, timers, now, consecutiveOpenSkyEmpty,
                       fallbackUntil, t0, osToken, osTokenExp, verdict, bearer,
                       scheduled, parsed, tries, clients, threw, delivered,
                       credentials, sent>>

\* `i < tries` is false: the loop ends and the call returns undefined.
R_loopExit ==
  /\ pc = "fetch" /\ ~(i < tries)
  /\ pc' = "idle"
  /\ Did("returnedUndefined")
  /\ R_frame /\ UNCHANGED <<retry, status, slept>>

\* `if (res.ok) return res`.
R_attemptOk ==
  /\ pc = "fetch" /\ i < tries
  /\ status' = 200
  /\ pc' = "idle"
  /\ Did("returned")
  /\ R_frame /\ UNCHANGED <<retry, slept>>

\* The attempt answers the non-OK status s or fetch() throws, and r is drawn:
\* `if (i === tries - 1) throw e;` and else `sleep(delay + r)`.
R_attemptFailed(s, r) ==
  /\ pc = "fetch" /\ i < tries
  /\ status' = s
  /\ IF i = tries - 1
     THEN pc' = "idle" /\ slept' = slept /\ Did("exhausted")
     ELSE pc' = "sleep" /\ slept' = delay + r /\ Did("attemptFailed")
  /\ R_frame /\ UNCHANGED retry

\* The sleep ends: `delay = Math.min(delay * 2, 6000)`, then `i++`.
R_wake_uncapped ==
  /\ pc = "sleep"
  /\ delay' = delay * 2
  /\ i' = i + 1
  /\ pc' = "fetch" /\ status' = 0 /\ slept' = 0
  /\ Did("retry")
  /\ R_frame
R_wake ==
  /\ pc = "sleep"
  /\ delay' = IF delay * 2 < DELAY_CAP THEN delay * 2 ELSE DELAY_CAP
  /\ i' = i + 1
  /\ pc' = "fetch" /\ status' = 0 /\ slept' = 0
  /\ Did("retry")
  /\ R_frame

R_Next ==
  \/ R_loopExit
  \/ R_attemptOk
  \/ \E s \in R_Status, r \in R_Draws : R_attemptFailed(s, r)
  \/ R_wake

SpecRetry == R_Init /\ [][R_Next]_vars

\* base_k = min(800 * 2^(k-1), 6000).
C28_base(k) == IF 800 * 2^(k - 1) < 6000 THEN 800 * 2^(k - 1) ELSE 6000

\* C28 Backoff schedule: for any attempt budget, the wait before the k-th
\* retry (k = 1, 2, 3, ...) is base_k + j ms with
\* base_k = min(800 * 2^(k-1), 6000) and an integer j, 0 <= j < 400; the base
\* never exceeds 6000 ms.
C28_BackoffSchedule ==
  pc = "sleep"
  => /\ \E j \in 0..399 : slept = C28_base(i + 1) + j
     /\ delay = C28_base(i + 1)
     /\ delay <= 6000

\* The wait before the fifth retry, with the base at its cap and the largest
\* jitter.
C28_Witness ==
  /\ pc = "sleep" /\ i = 4 /\ slept = 6399

----------------------------------------------------------------------------
\* src/server/index.js lines 166-350: bearing-to-airport gate, no landing
\* detection, no retry.  (Lines 1-165 hold an earlier version with the same
\* poll loop and the same message handler.)  state.flights is written by poll
\* and never read; it is left out.

I_isApproach(a) ==
  IF a.d_km > RADIUS_KM THEN FALSE
  ELSE IF a.alt_ft = null \/ a.alt_ft > ALT_MAX_FT THEN FALSE
  ELSE IF a.vs_fpm # null /\ a.vs_fpm > 0 THEN FALSE
  ELSE IF a.track_deg # null /\ angDiff(a.track_deg, a.brg) > BEARING_MAX_DEG
       THEN FALSE
  ELSE IF a.gs_kts # null /\ a.gs_kts > MIN_GS_KTS /\ EtaTooLong(a) THEN FALSE
  ELSE TRUE

I_Init ==
  /\ alerts = EmptyMap /\ acked = EmptyMap /\ landed = EmptyMap
  /\ pc = "token" /\ i = 0 /\ delay = DELAY_0 /\ len = 0 /\ n = 0 /\ timers = 0
  /\ now = 0
  /\ consecutiveOpenSkyEmpty = 0 /\ fallbackUntil = 0 /\ t0 = 0
  /\ osToken = nostr /\ osTokenExp = 0 /\ status = 0 /\ verdict = FALSE
  /\ bearer = nostr /\ AsideInit
  /\ op = "start" /\ key = nostr /\ ac = NoSnap /\ classified = FALSE
  /\ out = NoMsg

\* finally { setTimeout(poll, CFG.POLL_MS) }.
I_Reschedule ==
  /\ pc' = "idle"
  /\ timers' = timers + 1

\* The timer fires: poll() calls fetchOpenSky(), which asks for the token.
I_poll ==
  /\ pc = "idle" /\ timers > 0
  /\ timers' = timers - 1
  /\ len' = 0 /\ n' = 0
  /\ pc' = "token"
  /\ Did("poll")
  /\ UNCHANGED <<store, retry, now, source>>

\* getOpenSkyToken() returns a token: the state request is sent.
I_tokenOk ==
  /\ pc = "token"
  /\ pc' = "fetch"
  /\ Did("token")
  /\ UNCHANGED <<store, retry, batch, timers, now, source>>

\* getOpenSkyToken() throws: poll's catch and finally run.
I_tokenFailed ==
  /\ pc = "token"
  /\ I_Reschedule
  /\ Did("tokenFailed")
  /\ UNCHANGED <<store, retry, batch, now, source>>

\* The request answers res.ok and the body parses to `size` snapshots.
I_fetchOk(size) ==
  /\ pc = "fetch"
  /\ pc' = "loop" /\ len' = size
  /\ Did("fetched")
  /\ UNCHANGED <<store, retry, n, timers, now, source>>

\* The request fails, answers a non-OK status, or its body is no JSON.
I_fetchFailed ==
  /\ pc = "fetch"
  /\ I_Reschedule
  /\ Did("fetchFailed")
  /\ UNCHANGED <<store, retry, batch, now, source>>

\* `state.alerts.get(key)?.first_seen ?? Date.now()`.
I_firstSeen_reset(k) == now
I_firstSeen(k) == IF Has(alerts, k) THEN alerts[k].first_seen ELSE now

\* One iteration of `for (const ac of items)`.
I_observe(a, rnd) ==
  /\ pc = "loop" /\ n < len
  /\ n' = n + 1
  /\ op' = "observe" /\ ac' = a /\ key' = flightKey(a, rnd)
  /\ classified' = TRUE
  /\ LET k == flightKey(a, rnd) IN
     IF I_isApproach(a) /\ ~Has(acked, k) THEN
       /\ alerts' = MapSet(alerts, k, [ack |-> FALSE,
                                       first_seen |-> I_firstSeen(k),
                                       snapshot |-> a])
       /\ out' = Broadcast("APPROACH_ALERT", k, a)
     ELSE
       /\ alerts' = alerts
       /\ out' = NoMsg
  /\ UNCHANGED <<acked, landed, pc, retry, len, timers, now, source>>

\* The batch is exhausted: finally runs.
I_loopEnd ==
  /\ pc = "loop" /\ n = len
  /\ I_Reschedule
  /\ Did("cycleDone")
  /\ UNCHANGED <<store, retry, batch, now, source>>

\* `prev?.snapshot`: undefined when the key had no alert.
I_prevSnapshot(k) == IF Has(alerts, k) THEN alerts[k].snapshot ELSE NoSnap

\* ws.on("message"): the whole handler.
I_message(msg) ==
  /\ pc # "loop"
  /\ IF msg.type = "ACK" /\ msg.key # nostr THEN
       /\ op' = "ACK" /\ key' = msg.key /\ ac' = NoSnap /\ classified' = FALSE
       /\ alerts' = IF Has(alerts, msg.key) THEN MapDelete(alerts, msg.key)
                    ELSE alerts
       /\ acked' = MapSet(acked, msg.key,
              [ack |-> TRUE, acked_at |-> now,
               snapshot |-> I_prevSnapshot(msg.key)])
       /\ out' = Reply("ACK_OK", msg.key)
     ELSE
       /\ Did("message")
       /\ UNCHANGED <<alerts, acked>>
  /\ UNCHANGED <<landed, pc, retry, batch, timers, now, source>>

\* The lists of the INIT message: { key, callsign, hex } of every entry.
I_listOf(m) == { [key |-> k, callsign |-> m[k].snapshot.callsign,
                  hex |-> m[k].snapshot.hex] : k \in DOMAIN m }

\* wss.on("connection"): registers the listener and sends the current alerts
\* and acknowledgements.
I_connection ==
  /\ pc # "loop"
  /\ op' = "connection" /\ key' = nostr /\ ac' = NoSnap /\ classified' = FALSE
  /\ out' = [to |-> "requester", type |-> "INIT", key |-> nostr,
             callsign |-> nostr, hex |-> nostr,
             alerts |-> I_listOf(alerts), acked |-> I_listOf(acked)]
  /\ UNCHANGED <<store, pc, retry, batch, timers, now, source>>

I_Next ==
  \/ Tick
  \/ I_poll
  \/ I_tokenOk
  \/ I_tokenFailed
  \/ \E size \in 0..MaxBatch : I_fetchOk(size)
  \/ I_fetchFailed
  \/ \E a \in Snapshots, rnd \in UnkKeys : I_observe(a, rnd)
  \/ I_loopEnd
  \/ \E msg \in Messages : I_message(msg)
  \/ I_connection

SpecIndex == I_Init /\ [][I_Next]_vars

----------------------------------------------------------------------------
\* Properties of src/server/index.js, checked under SpecIndex.

\* C5 acknowledge of an unknown key is a no-op: an ACK message whose key is not
\* in state.alerts leaves state.alerts and state.acked unchanged and sends no
\* ACK_OK to the requester.
C5_UnknownAckIsNoOp ==
  [][ (op' = "ACK" /\ ~Has(alerts, key'))
      => (alerts' = alerts /\ acked' = acked /\ out' = NoMsg) ]_vars

\* C19 first_seen is not reset: an entry of state.alerts gets the current time
\* as first_seen when its key enters the map, and keeps it for as long as the
\* key stays there, through every observation of an approaching snapshot for
\* that key.
C19_FirstSeenKept ==
  [][ /\ \A k \in (DOMAIN alerts) \cap (DOMAIN alerts') :
             alerts'[k].first_seen = alerts[k].first_seen
      /\ \A k \in (DOMAIN alerts') \ (DOMAIN alerts) :
             alerts'[k].first_seen = now
      /\ (op' = "observe" /\ I_isApproach(ac') /\ Has(alerts, key'))
         => /\ Has(alerts', key') /\ alerts'[key'].snapshot = ac'
            /\ alerts'[key'].first_seen = alerts[key'].first_seen ]_vars

\* A key that entered state.alerts at an earlier time has just been observed
\* again, approaching, with another snapshot.
C19_Witness ==
  /\ op = "observe" /\ I_isApproach(ac)
  /\ Has(alerts, key) /\ ~Has(acked, key)
  /\ alerts[key].snapshot = ac
  /\ alerts[key].first_seen < now

====
